---- MODULE Spec2Model ----
(***************************************************************************)
(* ChessGenie analysis service: the job pipeline of backend/main.py        *)
(* (process_job, _process_job_task, store_game_result, _update_job_failed) *)
(* over the per-game analyzer of backend/analyzer.py (analyze_game_sync,   *)
(* analyze_game, analyze_games).                                           *)
(*                                                                         *)
(* main.py imports and iterates analyzer.analyze_games_parallel, which     *)
(* backend/analyzer.py does not define.  Its scheduling (a pool of         *)
(* max_workers slots, results streamed in completion order) is modelled    *)
(* from the specification's Batch Scheduler; what a task does and which    *)
(* return values reach the caller are taken from analyze_game_sync,        *)
(* analyze_game and the loop of analyze_games.                             *)
(***************************************************************************)
EXTENDS Integers, Sequences, FiniteSets, TLC

\* ---------------------------------------------------------------- bounds
\* Number of distinct games the remote platform can offer to one job.
NumGames == 3

\* ------------------------------------------------------ program constants
\* main.py:247  max_workers=2  (Limit concurrent Stockfish instances)
MaxWorkers == 2

GameIds == 1..NumGames

\* FetchedGame.pgn as the pipeline distinguishes it: "empty" is the falsy
\* default "" (game_fetcher.py:73,155), "bad" is text chess.pgn.read_game
\* yields no game for (analyzer.py:141-144), "ok" parses.
PgnKinds == {"ok", "bad", "empty"}

\* What the user's rows of "GameAnalysis" hold for a game before the job.
PriorKinds == {"none", "fetched", "analyzed"}

\* "Job".id of the jobs processed here, one after the other; rows that jobs
\* before them left in "GameAnalysis" carry PriorJob.
FirstJob == "job1"
SecondJob == "job2"
PriorJob == "earlier"

VARIABLES
    jobStatus,            \* "Job".status
    jobResult,            \* "Job".result
    pc,                   \* position of the job's handler / background task
    stockfish_available,  \* find_stockfish() is not None
    remote,               \* games the platform returns for the user, in order
    pgn,                  \* game id -> kind of its FetchedGame.pgn
    db,                   \* the user's rows of "GameAnalysis", insertion order
    games,                \* _process_job_task: games (ids, in order)
    cached_analyses,      \* _process_job_task: keys of cached_analyses
    games_to_analyze,     \* _process_job_task: games_to_analyze (ids, in order)
    phase,                \* game id -> phase of its analysis task: "none" (not
                          \* in the batch), "pending", "submitted", "engine",
                          \* "hung" (blocked in a query that never replies),
                          \* and "ok" / "failed" once analyze_game returned
    engines,              \* game ids whose analyzer holds an open engine
    started,              \* game ids for which analyze_game was invoked
    stream,               \* results the batch run yielded, not yet consumed
    yielded,              \* every game id the batch run has yielded, in order
    sched,                \* the batch run: "idle", "running", "exhausted"
                          \* (stream ended), "abandoned" (consumer left the
                          \* loop), "aborted" (a task's exception left it)
    analyses,             \* _process_job_task: analyses
    game_counter,         \* _process_job_task: game_counter[0]
    rejected,             \* ids of games whose INSERT the Sink rejected
    job_id                \* process_job / _process_job_task: job_id

\* One call of a function of analyzer.py on its own.
VARIABLES
    fn,                   \* the function called, "none" before any call
    fnPc,                 \* "idle", "call" (argument bound), "return"
    fnArg,                \* its argument
    fnOut                 \* its return value

fnVars == <<fn, fnPc, fnArg, fnOut>>

\* One call of analyze_game_sync on its own; the lists are its locals.
VARIABLES
    gpc,                  \* "idle", "begin", "initial", "loop", "returned"
    n_moves,              \* len(moves): the plies of the game's main line
    first_turn,           \* game.board().turn: the side that moves first
    palette,              \* the (eval_before, eval_after) pairs the engine gives
    move_num,             \* the loop index: plies analysed so far
    move_analyses,
    white_losses,
    black_losses,
    mistakes,
    blunders,
    best_moves,
    critical_moments,
    engine,               \* the engine process: "none", "open", "quit"
    queries,              \* engine.analyse calls issued
    best_info,            \* principal line of the last reply before a move
    result                \* the return value once gpc = "returned"

gameVars ==
    <<gpc, n_moves, first_turn, palette, move_num, move_analyses,
      white_losses, black_losses, mistakes, blunders, best_moves,
      critical_moments, engine, queries, best_info, result>>

\* One call of game_fetcher.fetch_games on its own.
VARIABLES
    fpc,                  \* "idle", "call", "lichess", "chesscom", "returned"
    platform,             \* the platform argument
    limit,                \* the limit argument
    lines,                \* Lichess: game lines the response has still to send
    archives,             \* Chess.com: games per monthly archive, oldest first
    n_games,              \* len(games)
    fetch_out             \* "pending", "list" (games returned), "raised"

fetchVars == <<fpc, platform, limit, lines, archives, n_games, fetch_out>>

\* One run of backfill_fen.main on its own.
VARIABLES
    bpc,                  \* "idle", "loop", "done"
    ga_rows,              \* the rows of "GameAnalysis" the SELECT returned
    row_idx               \* rows handled by the loop so far

backfillVars == <<bpc, ga_rows, row_idx>>

\* The "Job" table under process requests (main.py) and the polling worker
\* (worker.py), which run in processes of their own.
VARIABLES
    jobs,                 \* job id -> [status, result] of its "Job" row
    rpc,                  \* request -> "idle", "update" (row read as QUEUED,
                          \* UPDATE not yet issued), "done"
    rjob,                 \* request -> the job_id of its path
    rout,                 \* request -> "none", "ok", "400", "404"
    scheduled,            \* job id -> background tasks added for it so far
    pending,              \* job id -> background tasks added and not yet run
    wpc,                  \* worker.main: "poll", "mark", "process", "complete"
    wjob,                 \* worker.main: job['id']
    worker_runs           \* job id -> times the worker has processed it

jobsVars ==
    <<jobs, rpc, rjob, rout, scheduled, pending, wpc, wjob, worker_runs>>

toolVars == <<fetchVars, backfillVars, jobsVars>>

pureVars == <<fnVars, gameVars, toolVars>>

vars ==
    <<jobStatus, jobResult, pc, stockfish_available, remote, pgn, db, games,
      cached_analyses, games_to_analyze, phase, engines, started, stream,
      yielded, sched, analyses, game_counter, rejected, job_id, pureVars>>

jobVars == <<jobStatus, jobResult>>
gateVars == <<games, cached_analyses, games_to_analyze>>
taskVars == <<phase, engines, started, stream, yielded, sched>>
envVars == <<stockfish_available, remote, pgn>>
\* State that no step of a job's handler or of its batch run changes.
restVars == <<job_id, pureVars>>

\* main.py:120  the job_id the handler was started with
ThisJob == job_id

\* ------------------------------------------------------------- utilities
RECURSIVE SetToSeq(_)
\* The elements of a finite set of integers in ascending order.
SetToSeq(S) ==
    IF S = {} THEN <<>>
    ELSE LET m == CHOOSE x \in S : \A y \in S : x <= y
         IN <<m>> \o SetToSeq(S \ {m})

Range(s) == {s[i] : i \in 1..Len(s)}

NoResult == [kind |-> "none", error |-> "", total_games |-> 0, analyses |-> <<>>]

\* ------------------------------------------------------------ job record
\* Mutant of JobFailed: the UPDATE is never committed, the job stays RUNNING.
JobFailedNotCommitted(msg) == [status |-> "RUNNING", result |-> NoResult]

\* main.py:288-299  _update_job_failed: status FAILED, result {"error": msg}
JobFailed(msg) ==
    [status |-> "FAILED",
     result |-> [kind |-> "error", error |-> msg, total_games |-> 0,
                 analyses |-> <<>>]]

\* main.py:264-279  status COMPLETED, result {total_games, analyses, ...}
JobCompleted(gs, an) ==
    [status |-> "COMPLETED",
     result |-> [kind |-> "summary", error |-> "", total_games |-> Len(gs),
                 analyses |-> an]]

\* --------------------------------------------------------- Result Sink
\* main.py:216-232  one row of "GameAnalysis" as store_game_result inserts it
Row(ga, g, st) == [gaId |-> ga, jobId |-> ThisJob, gameId |-> g, status |-> st]

\* main.py:234-240  the dict store_game_result returns
Info(ga, g, st) == [id |-> ga, gameId |-> g, status |-> st]

\* main.py:181-212  result_data["status"]: "analyzed" when an analysis result
\* is passed, "fetched" when it is None
StatusOf(hasResult) == IF hasResult THEN "analyzed" ELSE "fetched"

\* Rows an earlier job left for the user.
PriorRows(prior) ==
    LET gs == SetToSeq({g \in GameIds : prior[g] # "none"})
    IN [i \in 1..Len(gs) |->
          [gaId |-> <<PriorJob, gs[i]>>, jobId |-> PriorJob, gameId |-> gs[i],
           status |-> prior[gs[i]]]]

\* --------------------------------------------------------------- Cache Gate
\* Mutant of IsAnalyzedRow: the status filter is missing from the query.
IsAnyRow(r) == TRUE

\* main.py:159  AND result::text LIKE '%"status": "analyzed"%'
IsAnalyzedRow(r) == r.status = "analyzed"

\* Mutant of CachedAnalyses: the cache query matches no row.
CachedAnalysesEmpty(rows, gs) == {}

\* main.py:152-164  cached_analyses: the supplied games with a matching row
CachedAnalyses(rows, gs) ==
    {g \in Range(gs) : \E i \in 1..Len(rows) :
                          rows[i].gameId = g /\ IsAnalyzedRow(rows[i])}

\* Mutant of NeedsAnalysis: the cache lookup is not consulted.
NeedsAnalysisIgnoringCache(g, c, p) == p[g] # "empty"

\* main.py:171  game.game_id not in cached_analyses and game.pgn
NeedsAnalysis(g, c, p) == g \notin c /\ p[g] # "empty"

\* main.py:167-172  games_to_analyze
GamesToAnalyze(gs, c, p) == SelectSeq(gs, LAMBDA g : NeedsAnalysis(g, c, p))

\* Mutant of NoGames: the empty list is not detected.
NoGamesNeverDetected(gs) == FALSE

\* main.py:137  if not games
NoGames(gs) == gs = <<>>

\* Mutant of UseEngine: the engine lookup is not consulted.
UseEngineIgnoringLookup(sf, ta) == ta # <<>>

\* main.py:242  if stockfish_available and games_to_analyze
UseEngine(sf, ta) == sf /\ ta # <<>>

\* ------------------------------------------------------------------- Init
\* No function call is under way.
FnIdle ==
    /\ fn = "none"
    /\ fnPc = "idle"
    /\ fnArg = 0
    /\ fnOut = 0

\* analyze_game_sync returns None
NoAnalysis ==
    [kind |-> "none", accuracy_white |-> 0, accuracy_black |-> 0,
     total_moves |-> 0, mistakes |-> <<>>, blunders |-> <<>>,
     best_moves |-> <<>>, critical_moments |-> <<>>, move_analyses |-> <<>>]

\* analyzer.py:159-165  the empty locals of analyze_game_sync
FreshLocals ==
    /\ move_num = 0
    /\ move_analyses = <<>>
    /\ white_losses = <<>>
    /\ black_losses = <<>>
    /\ mistakes = <<>>
    /\ blunders = <<>>
    /\ best_moves = <<>>
    /\ critical_moments = <<>>

\* No call of analyze_game_sync is under way.
GameIdle ==
    /\ gpc = "idle"
    /\ n_moves = 0
    /\ first_turn = "white"
    /\ palette = {}
    /\ FreshLocals
    /\ engine = "none"
    /\ queries = 0
    /\ best_info = "none"
    /\ result = NoAnalysis

\* No call of fetch_games is under way.
FetchIdle ==
    /\ fpc = "idle"
    /\ platform = "LICHESS"
    /\ limit = 0
    /\ lines = 0
    /\ archives = <<>>
    /\ n_games = 0
    /\ fetch_out = "pending"

\* No backfill run is under way.
BackfillIdle ==
    /\ bpc = "idle"
    /\ ga_rows = <<>>
    /\ row_idx = 0

\* The "Job" table is not looked at.
JobsIdle ==
    /\ jobs = <<>>
    /\ rpc = <<>>
    /\ rjob = <<>>
    /\ rout = <<>>
    /\ scheduled = <<>>
    /\ pending = <<>>
    /\ wpc = "poll"
    /\ wjob = 0
    /\ worker_runs = <<>>

ToolsIdle == FetchIdle /\ BackfillIdle /\ JobsIdle

Init ==
    /\ FnIdle
    /\ GameIdle
    /\ ToolsIdle
    /\ jobStatus = "QUEUED"
    /\ jobResult = NoResult
    /\ pc = "queued"
    /\ stockfish_available \in BOOLEAN
    /\ \E offered \in SUBSET GameIds :
         /\ remote = SetToSeq(offered)
         /\ pgn \in {f \in [GameIds -> PgnKinds] :
                        \A g \in GameIds \ offered : f[g] = "ok"}
         /\ \E prior \in {f \in [GameIds -> PriorKinds] :
                             \A g \in GameIds \ offered : f[g] = "none"} :
              db = PriorRows(prior)
    /\ games = <<>>
    /\ cached_analyses = {}
    /\ games_to_analyze = <<>>
    /\ phase = [g \in GameIds |-> "none"]
    /\ engines = {}
    /\ started = {}
    /\ stream = <<>>
    /\ yielded = <<>>
    /\ sched = "idle"
    /\ analyses = <<>>
    /\ game_counter = 0
    /\ rejected = {}
    /\ job_id = FirstJob

\* ------------------------------------------------------------ process_job
\* main.py:74-117  a QUEUED job is marked RUNNING and its task is scheduled
ProcessJob ==
    /\ pc = "queued"
    /\ jobStatus = "QUEUED"
    /\ jobStatus' = "RUNNING"
    /\ pc' = "fetch"
    /\ UNCHANGED <<jobResult, db, analyses, game_counter, rejected>>
    /\ UNCHANGED <<gateVars, taskVars, envVars, restVars>>

\* ------------------------------------------------------ _process_job_task
\* main.py:122-142  fetch the games; an exception of fetch_games reaches the
\* handler's except clause (283-285); an empty list fails the job (137-140)
FetchGames ==
    /\ pc = "fetch"
    /\ \E fetched \in BOOLEAN :
         IF ~fetched
         THEN /\ jobStatus' = JobFailed("fetch_error").status
              /\ jobResult' = JobFailed("fetch_error").result
              /\ pc' = "done"
              /\ UNCHANGED games
         ELSE /\ games' = remote
              /\ IF NoGames(remote)
                 THEN /\ jobStatus' = JobFailed("no_games").status
                      /\ jobResult' = JobFailed("no_games").result
                      /\ pc' = "done"
                 ELSE /\ pc' = "gate"
                      /\ UNCHANGED jobVars
    /\ UNCHANGED <<db, cached_analyses, games_to_analyze, analyses, game_counter,
                   rejected>>
    /\ UNCHANGED <<taskVars, envVars, restVars>>

\* main.py:144-177, 242  the engine lookup, the cache query and the split of
\* the games; the branch taken at line 242 is fixed here.  (The import at
\* line 145 names analyze_games_parallel and is taken to resolve.)
CacheGate ==
    /\ pc = "gate"
    /\ cached_analyses' = CachedAnalyses(db, games)
    /\ games_to_analyze' = GamesToAnalyze(games, cached_analyses', pgn)
    /\ IF UseEngine(stockfish_available, games_to_analyze')
       THEN /\ pc' = "batch"
            /\ sched' = "running"
            /\ phase' = [g \in GameIds |->
                           IF g \in Range(games_to_analyze') THEN "pending"
                           ELSE "none"]
       ELSE /\ pc' = "store_all"
            /\ UNCHANGED <<sched, phase>>
    /\ UNCHANGED <<jobVars, db, games, engines, started, stream, yielded,
                   analyses, game_counter, rejected, envVars, restVars>>

\* --------------------------------------------------- else branch (257-279)
\* Rows and summary entries of the first k games stored without analysis;
\* main.py:259-262  ga_id = f"{job_id}_g{i}", i counted from 0
FetchedRows(gs, k) == [i \in 1..k |-> Row(<<ThisJob, i - 1>>, gs[i], StatusOf(FALSE))]
FetchedInfos(gs, k) == [i \in 1..k |-> Info(<<ThisJob, i - 1>>, gs[i], StatusOf(FALSE))]

\* main.py:257-285  no engine, or nothing to analyze: every supplied game is
\* stored with no analysis result, then the job is marked COMPLETED.  The loop
\* holds no await, so it runs as one step; the Sink may reject the insert of
\* game k+1, and the exception ends the job in the except clause (283-285).
StoreWithoutAnalysis ==
    /\ pc = "store_all"
    /\ \E k \in 0..Len(games) :
         /\ db' = db \o FetchedRows(games, k)
         /\ analyses' = analyses \o FetchedInfos(games, k)
         /\ IF k = Len(games)
            THEN /\ jobStatus' = JobCompleted(games, analyses').status
                 /\ jobResult' = JobCompleted(games, analyses').result
                 /\ UNCHANGED rejected
            ELSE /\ rejected' = rejected \cup {games[k + 1]}
                 /\ jobStatus' = JobFailed("store_error").status
                 /\ jobResult' = JobFailed("store_error").result
    /\ pc' = "done"
    /\ UNCHANGED <<game_counter, gateVars, taskVars, envVars, restVars>>

\* ------------------------------------------------------------ batch run
\* Tasks holding a worker slot: analyze_game invoked and not yet returned.
Active == {g \in GameIds : phase[g] \in {"submitted", "engine", "hung"}}

\* Tasks of the batch that have not been handed to a worker yet.
Pending == SelectSeq(games_to_analyze, LAMBDA g : phase[g] = "pending")

\* Batch Scheduler: the next task takes a free slot of the pool of
\* max_workers (main.py:247) and analyze_game is invoked for it
\* (analyzer.py:306-313: analyze_game_sync is handed to the executor).
StartTask ==
    /\ pc = "batch"
    /\ sched = "running"
    /\ Pending # <<>>
    /\ Cardinality(Active) < MaxWorkers
    /\ LET g == Head(Pending)
       IN /\ phase' = [phase EXCEPT ![g] = "submitted"]
          /\ started' = started \cup {g}
    /\ UNCHANGED <<jobVars, pc, db, analyses, game_counter, rejected, engines,
                   stream, yielded, sched, gateVars, envVars, restVars>>

\* Mutant of ReturnOnException: the exception is raised again.
ReturnPropagates == "raise"

\* analyzer.py:275-277  except Exception: log, return None
\* The value analyze_game_sync returns: "result" for a GameAnalysisResult,
\* "none" for None.  ("raise" stands for an exception leaving the function.)
ReturnOnException == "none"

\* Mutant of EnginesAfterQuit: the engine is quit on the normal path only.
EnginesQuitOnSuccessOnly(es, g, ok) == IF ok THEN es \ {g} ELSE es

\* analyzer.py:272-273  finally: engine.quit()
\* The open engine processes after the analysis of game g left the inner try
\* block, normally (ok) or by an exception.
EnginesAfterQuit(es, g, ok) == es \ {g}

\* analyzer.py:335-336  if result: results.append(result)
\* main.py:251 reads .game_id of every item of the stream: items are results.
IsYielded(ret) == ret = "result"

\* Mutant of BatchExhausted: the loop is left at the first failed game.
BatchEndsOnFailure(ph, ta) ==
    \/ \A g \in Range(ta) : ph[g] \in {"ok", "failed"}
    \/ \E g \in Range(ta) : ph[g] = "failed"

\* analyzer.py:332-338  the run is over when the loop has handled every game
BatchExhausted(ph, ta) == \A g \in Range(ta) : ph[g] \in {"ok", "failed"}

\* The return of analyze_game for task g reaches the batch run: the slot is
\* freed and a result joins the stream (analyzer.py:334-336).  An exception
\* out of analyze_game would leave the batch run and reach the handler's
\* except clause (main.py:283-285).  After the consumer has left the loop the
\* executor thread still runs to its end and its return value is discarded.
TaskReturns(g, ret) ==
    /\ phase' = [phase EXCEPT ![g] = IF ret = "result" THEN "ok" ELSE "failed"]
    /\ IF sched # "running"
       THEN UNCHANGED <<jobVars, pc, stream, yielded, sched>>
       ELSE IF ret = "raise"
       THEN /\ sched' = "aborted"
            /\ jobStatus' = JobFailed("analysis_error").status
            /\ jobResult' = JobFailed("analysis_error").result
            /\ pc' = "done"
            /\ UNCHANGED <<stream, yielded>>
       ELSE /\ stream' = IF IsYielded(ret) THEN Append(stream, g) ELSE stream
            /\ yielded' = IF IsYielded(ret) THEN Append(yielded, g) ELSE yielded
            /\ UNCHANGED <<jobVars, pc, sched>>

\* analyzer.py:134-153  analyze_game_sync up to the start of the engine:
\* no engine binary -> None (134-137); read_game yields no game -> None
\* (141-144); popen_uci raises -> except clause (275-277); else the engine
\* process is open.
AnalyzerOpen(g) ==
    /\ phase[g] = "submitted"
    /\ \E popen \in BOOLEAN :
         IF ~stockfish_available \/ pgn[g] = "bad"
         THEN /\ TaskReturns(g, "none")
              /\ UNCHANGED engines
         ELSE IF ~popen
         THEN /\ TaskReturns(g, ReturnOnException)
              /\ UNCHANGED engines
         ELSE /\ phase' = [phase EXCEPT ![g] = "engine"]
              /\ engines' = engines \cup {g}
              /\ UNCHANGED <<jobVars, pc, stream, yielded, sched>>
    /\ UNCHANGED <<db, analyses, game_counter, rejected, started, gateVars,
                   envVars, restVars>>

\* analyzer.py:155-277  the evaluation loop: every query replies (ok) and a
\* GameAnalysisResult is returned, or a query fails or times out and the
\* exception is handled at 275-277; the engine is quit on both paths.
AnalyzerFinish(g) ==
    /\ phase[g] = "engine"
    /\ \E ok \in BOOLEAN :
         /\ engines' = EnginesAfterQuit(engines, g, ok)
         /\ TaskReturns(g, IF ok THEN "result" ELSE ReturnOnException)
    /\ UNCHANGED <<db, analyses, game_counter, rejected, started, gateVars,
                   envVars, restVars>>

\* Mutant of StreamNext: the consumer is handed the newest result.
StreamNextNewest(s) == s[Len(s)]

\* main.py:244  async for: the consumer is handed the results in the order
\* in which the batch run yielded them
StreamNext(s) == Head(s)

\* main.py:244-256 and 283-285  the consumer takes the next result of the
\* stream, numbers it and stores it; a rejected insert raises out of the
\* loop and the job is marked FAILED.
Consume ==
    /\ pc = "batch"
    /\ stream # <<>>
    /\ LET g == StreamNext(stream)
           ga == <<ThisJob, game_counter + 1>>
       IN /\ game_counter' = game_counter + 1
          /\ stream' = Tail(stream)
          /\ \E stored \in BOOLEAN :
               IF stored
               THEN /\ db' = Append(db, Row(ga, g, StatusOf(TRUE)))
                    /\ analyses' = Append(analyses, Info(ga, g, StatusOf(TRUE)))
                    /\ UNCHANGED <<jobVars, pc, sched, rejected>>
               ELSE /\ rejected' = rejected \cup {g}
                    /\ jobStatus' = JobFailed("store_error").status
                    /\ jobResult' = JobFailed("store_error").result
                    /\ pc' = "done"
                    /\ sched' = "abandoned"
                    /\ UNCHANGED <<db, analyses>>
    /\ UNCHANGED <<phase, engines, started, yielded, gateVars, envVars, restVars>>

\* Mutant of StreamDrained: the loop is left with results not yet taken.
StreamLeftEarly(s) == TRUE

\* main.py:244  the async for ends when the batch run has no item left: every
\* result it yielded has gone through the loop body
StreamDrained(s) == s = <<>>

\* main.py:244, 264-279  the stream ends and the job is marked COMPLETED
FinishBatch ==
    /\ pc = "batch"
    /\ sched = "running"
    /\ StreamDrained(stream)
    /\ BatchExhausted(phase, games_to_analyze)
    /\ sched' = "exhausted"
    /\ jobStatus' = JobCompleted(games, analyses).status
    /\ jobResult' = JobCompleted(games, analyses).result
    /\ pc' = "done"
    /\ UNCHANGED <<db, analyses, game_counter, rejected, phase, engines, started,
                   stream, yielded, gateVars, envVars, restVars>>

\* ------------------------------------------------------------------- Next
Next ==
    \/ ProcessJob
    \/ FetchGames
    \/ CacheGate
    \/ StoreWithoutAnalysis
    \/ StartTask
    \/ \E g \in GameIds : AnalyzerOpen(g)
    \/ \E g \in GameIds : AnalyzerFinish(g)
    \/ Consume
    \/ FinishBatch

Spec == Init /\ [][Next]_vars

\* main.py:74-117  process_job is called for a second QUEUED job of the same
\* user and platform account once the first job has ended and the executor
\* threads it started have returned: the "Job" row read is the new job's, the
\* handler's locals start afresh, "GameAnalysis" keeps every row.
ProcessSecondJob ==
    /\ pc = "done"
    /\ job_id = FirstJob
    /\ Active = {}
    /\ job_id' = SecondJob
    /\ jobStatus' = "RUNNING"
    /\ jobResult' = NoResult
    /\ pc' = "fetch"
    /\ games' = <<>>
    /\ cached_analyses' = {}
    /\ games_to_analyze' = <<>>
    /\ phase' = [g \in GameIds |-> "none"]
    /\ engines' = {}
    /\ started' = {}
    /\ stream' = <<>>
    /\ yielded' = <<>>
    /\ sched' = "idle"
    /\ analyses' = <<>>
    /\ game_counter' = 0
    /\ rejected' = {}
    /\ UNCHANGED <<db, envVars, pureVars>>

NextRerun ==
    \/ Next
    \/ ProcessSecondJob

\* Two jobs of one user over the same games, one after the other.
SpecRerun == Init /\ [][NextRerun]_vars

\* The event loop runs every ready coroutine and every evaluator query
\* replies or fails: no enabled step is postponed for ever.
FairSpec ==
    /\ Spec
    /\ WF_vars(StartTask)
    /\ \A g \in GameIds : WF_vars(AnalyzerOpen(g)) /\ WF_vars(AnalyzerFinish(g))
    /\ WF_vars(Consume)
    /\ WF_vars(FinishBatch)

\* analyzer.py:168, 178, 188  engine.analyse(board, Limit(depth=depth)): the
\* limit holds a depth and no time, and the timeout parameter of
\* analyze_game_sync (120) is used nowhere, analyze_game (307-313) passing
\* none: when the engine process stops replying, the call blocks its
\* executor thread without end, the engine stays open and the slot taken.
QueryHangs(g) ==
    /\ phase[g] = "engine"
    /\ phase' = [phase EXCEPT ![g] = "hung"]
    /\ UNCHANGED <<jobVars, pc, db, analyses, game_counter, rejected, engines,
                   started, stream, yielded, sched, gateVars, envVars, restVars>>

NextHang ==
    \/ Next
    \/ \E g \in GameIds : QueryHangs(g)

\* The job pipeline with engines that may stop replying.
SpecHang == Init /\ [][NextHang]_vars

\* The request handler and the background task run (the fetch is bounded by
\* the HTTP client's timeout, game_fetcher.py:55, 122), as do the event loop
\* and the executor threads; an engine may stop replying.
FairSpecHang ==
    /\ SpecHang
    /\ WF_vars(ProcessJob)
    /\ WF_vars(FetchGames)
    /\ WF_vars(CacheGate)
    /\ WF_vars(StoreWithoutAnalysis)
    /\ WF_vars(StartTask)
    /\ \A g \in GameIds : WF_vars(AnalyzerOpen(g)) /\ WF_vars(AnalyzerFinish(g))
    /\ WF_vars(Consume)
    /\ WF_vars(FinishBatch)

\* ==================================================== functions of analyzer.py
\* No job is being processed: a QUEUED job, nothing fetched, an empty store.
PipelineIdle ==
    /\ jobStatus = "QUEUED"
    /\ jobResult = NoResult
    /\ pc = "queued"
    /\ stockfish_available = FALSE
    /\ remote = <<>>
    /\ pgn = [g \in GameIds |-> "ok"]
    /\ db = <<>>
    /\ games = <<>>
    /\ cached_analyses = {}
    /\ games_to_analyze = <<>>
    /\ phase = [g \in GameIds |-> "none"]
    /\ engines = {}
    /\ started = {}
    /\ stream = <<>>
    /\ yielded = <<>>
    /\ sched = "idle"
    /\ analyses = <<>>
    /\ game_counter = 0
    /\ rejected = {}
    /\ job_id = FirstJob

pipelineVars ==
    <<jobStatus, jobResult, pc, stockfish_available, remote, pgn, db, games,
      cached_analyses, games_to_analyze, phase, engines, started, stream,
      yielded, sched, analyses, game_counter, rejected, job_id>>

Min(a, b) == IF a <= b THEN a ELSE b
Max(a, b) == IF a >= b THEN a ELSE b
Abs(a) == IF a >= 0 THEN a ELSE -a

RECURSIVE Sum(_)
Sum(s) == IF s = <<>> THEN 0 ELSE Head(s) + Sum(Tail(s))

\* ------------------------------------------------------------ classify_move
\* Mutant of classify_move: the thresholds are compared with < instead of <=.
classify_move_strict(centipawn_loss) ==
    IF centipawn_loss < 10 THEN "best"
    ELSE IF centipawn_loss < 30 THEN "excellent"
    ELSE IF centipawn_loss < 100 THEN "good"
    ELSE IF centipawn_loss < 200 THEN "inaccuracy"
    ELSE IF centipawn_loss < 500 THEN "mistake"
    ELSE "blunder"

\* analyzer.py:85-98
classify_move(centipawn_loss) ==
    IF centipawn_loss <= 10 THEN "best"
    ELSE IF centipawn_loss <= 30 THEN "excellent"
    ELSE IF centipawn_loss <= 100 THEN "good"
    ELSE IF centipawn_loss <= 200 THEN "inaccuracy"
    ELSE IF centipawn_loss <= 500 THEN "mistake"
    ELSE "blunder"

\* -------------------------------------------------------- calculate_accuracy
\* A float with one decimal is held in tenths: 1000 stands for 100.0.
\*
\* analyzer.py:113  round(accuracy, 1) of the float accuracy = num / den
\* tenths (den > 0): the nearest tenth.  When num / den lies exactly half way
\* between two tenths the float computed at 111-112 lies on either side of
\* it ([0, 1] gives 99.8, [0, 3] gives 99.2), so both neighbours can result.
RoundTenths(num, den) ==
    LET fl == num \div den
        rem == num % den
    IN IF 2 * rem < den THEN {fl}
       ELSE IF 2 * rem > den THEN {fl + 1}
       ELSE {fl, fl + 1}

\* Mutant of ClampAccuracy: the lower clamp is missing.
ClampUpperOnly(r) == Min(1000, r)

\* analyzer.py:113  max(0.0, min(100.0, ...))
ClampAccuracy(r) == Max(0, Min(1000, r))

\* analyzer.py:101-113  the values calculate_accuracy can return, in tenths:
\* 100.0 for no losses; else avg_loss = sum / len, accuracy = 100 * (1 -
\* avg_loss / 200) = (1000 * len - 5 * sum) / len tenths, rounded, clamped.
calculate_accuracy(centipawn_losses) ==
    IF centipawn_losses = <<>> THEN {1000}
    ELSE LET n == Len(centipawn_losses)
             total == Sum(centipawn_losses)
         IN {ClampAccuracy(r) : r \in RoundTenths(1000 * n - 5 * total, n)}

\* -------------------------------------------------------------- _get_score
\* The engine's reply as chess.engine reports it: info["score"] is absent, or
\* a PovScore of a relative score (from the side to move, `turn`): Cp(n), or
\* Mate(n) with n > 0 when the side to move mates in n, n < 0 when it is mated
\* in -n, and n = 0 when it is checkmated on the board.
\*
\* analyzer.py:287  score.white(): the relative score if white is to move,
\* else its negation; chess.engine negates Cp(n) to Cp(-n), Mate(n) to
\* Mate(-n) for n # 0, and Mate(0) to MateGiven.
WhitePov(score) ==
    IF score.turn = "white" THEN [kind |-> score.kind, n |-> score.n]
    ELSE IF score.kind = "mate" /\ score.n = 0 THEN [kind |-> "mategiven", n |-> 0]
    ELSE [kind |-> score.kind, n |-> -score.n]

\* analyzer.py:289  pov_score.is_mate()
IsMate(pov) == pov.kind \in {"mate", "mategiven"}

\* analyzer.py:290  pov_score.mate(): the plies of Mate(n), 0 for MateGiven
MateIn(pov) == IF pov.kind = "mategiven" THEN 0 ELSE pov.n

\* analyzer.py:280-297
get_score(info) ==
    IF info.kind = "none" THEN 0
    ELSE LET pov_score == WhitePov(info)
         IN IF IsMate(pov_score)
            THEN LET mate_in == MateIn(pov_score)
                 IN IF mate_in > 0 THEN 10000 - (mate_in * 10)
                    ELSE -10000 - (mate_in * 10)
            ELSE pov_score.n

\* ------------------------------------------------ inputs of the single calls
\* Largest centipawn loss classified.
MaxLoss == 600

\* Longest loss list whose accuracy is computed, and the losses it draws on.
MaxLosses == 3
LossSamples == {0, 1, 3, 100, 200, 400}

\* Longest forced mate, and the centipawn scores, the engine reports.
MaxMate == 4
CpSamples == {-300, -1, 0, 1, 300}

LossLists == UNION {[1..n -> LossSamples] : n \in 0..MaxLosses}

EngineInfos ==
    {[kind |-> "none", n |-> 0, turn |-> "white"]}
    \cup [kind : {"cp"}, n : CpSamples, turn : {"white", "black"}]
    \cup [kind : {"mate"}, n : -MaxMate..MaxMate, turn : {"white", "black"}]

InitFn ==
    /\ PipelineIdle
    /\ GameIdle
    /\ ToolsIdle
    /\ fnPc = "call"
    /\ fnOut = 0
    /\ \/ fn = "classify_move" /\ fnArg \in 0..MaxLoss
       \/ fn = "calculate_accuracy" /\ fnArg \in LossLists
       \/ fn = "_get_score" /\ fnArg \in EngineInfos

CallClassifyMove ==
    /\ fnPc = "call"
    /\ fn = "classify_move"
    /\ fnOut' = classify_move(fnArg)
    /\ fnPc' = "return"
    /\ UNCHANGED <<fn, fnArg, pipelineVars, gameVars, toolVars>>

CallCalculateAccuracy ==
    /\ fnPc = "call"
    /\ fn = "calculate_accuracy"
    /\ fnOut' \in calculate_accuracy(fnArg)
    /\ fnPc' = "return"
    /\ UNCHANGED <<fn, fnArg, pipelineVars, gameVars, toolVars>>

CallGetScore ==
    /\ fnPc = "call"
    /\ fn = "_get_score"
    /\ fnOut' = get_score(fnArg)
    /\ fnPc' = "return"
    /\ UNCHANGED <<fn, fnArg, pipelineVars, gameVars, toolVars>>

NextFn ==
    \/ CallClassifyMove
    \/ CallCalculateAccuracy
    \/ CallGetScore

SpecFn == InitFn /\ [][NextFn]_vars

\* ======================================================== analyze_game_sync
\* Longest main line analysed (above ListCap, so that the capped lists overflow).
MaxPlies == 12

\* analyzer.py:265-268  [:10]
ListCap == 10

\* The evaluator's answers for one ply, as (eval_before, eval_after) in
\* white's perspective and the principal line of the reply before the move:
\* "move" when it names a move, "absent" when the reply has no "pv", "empty"
\* when its "pv" is an empty list.  A game draws every ply's answers from one
\* palette.
Palettes ==
    {{<<300, 0, "move">>, <<0, 400, "move">>},
     {<<600, 0, "move">>, <<0, 600, "move">>},
     {<<0, 150, "move">>, <<0, 151, "move">>},
     {<<20, 0, "move">>, <<100, 0, "move">>},
     {<<600, 0, "move">>, <<300, 0, "move">>},
     {<<20, 0, "move">>, <<20, 0, "absent">>},
     {<<20, 0, "move">>, <<20, 0, "empty">>}}

Other(turn) == IF turn = "white" THEN "black" ELSE "white"

\* analyzer.py:172, 185  board.turn before ply move_num: the sides alternate
TurnAt(k) == IF k % 2 = 0 THEN first_turn ELSE Other(first_turn)

\* analyzer.py:202
MoveNumber(k) == (k \div 2) + 1

\* Mutant of CpLoss: black's loss is computed with white's formula.
CpLossWhiteOnly(is_white, eval_before, eval_after) ==
    Max(0, eval_before - eval_after)

\* analyzer.py:192-197
CpLoss(is_white, eval_before, eval_after) ==
    IF is_white THEN Max(0, eval_before - eval_after)
    ELSE Max(0, eval_after - eval_before)

\* Mutant of IsCritical: only a swing above the blunder threshold counts.
IsCriticalAbove500(eval_before, eval_after) ==
    Abs(eval_after - eval_before) > 500

\* Mutant of IsCritical: a swing of exactly 150 counts.
IsCriticalFrom150(eval_before, eval_after) ==
    Abs(eval_after - eval_before) >= 150

\* analyzer.py:242
IsCritical(eval_before, eval_after) ==
    Abs(eval_after - eval_before) > 150

\* analyzer.py:173-174, 180-181  a move in the two notations
San(m) == <<"san", m>>
Uci(m) == <<"uci", m>>

\* analyzer.py:179  best_info.get("pv", [None])[0]: the first move of the
\* principal line, None when the reply has no "pv"; an empty list has no
\* element 0 and the subscript raises IndexError.
PrincipalMove(pv) ==
    CASE pv = "move" -> "pv"
      [] pv = "absent" -> "None"
      [] pv = "empty" -> "IndexError"

\* analyzer.py:173-175, 180-181, 201-213  the MoveAnalysis of ply k; a
\* position is held as the index of the ply it precedes.
MoveRecord(k, eval_before, eval_after, best_move) ==
    LET is_white == TurnAt(k) = "white"
        cp_loss == CpLoss(is_white, eval_before, eval_after)
        move_san == San("played")
        move_uci == Uci("played")
    IN [move_number |-> MoveNumber(k),
        move_san |-> move_san,
        move_uci |-> move_uci,
        is_white |-> is_white,
        eval_before |-> eval_before,
        eval_after |-> eval_after,
        best_move_uci |-> IF best_move # "None" THEN Uci(best_move)
                          ELSE move_uci,
        best_move_san |-> IF best_move # "None" THEN San(best_move)
                          ELSE move_san,
        centipawn_loss |-> cp_loss,
        classification |-> classify_move(cp_loss),
        position_fen |-> k]

Player(rec) == IF rec.is_white THEN "white" ELSE "black"

\* analyzer.py:219-225, 227-233  the entry of a mistake or a blunder
LossEntry(rec) ==
    [move_number |-> rec.move_number, player |-> Player(rec),
     loss |-> rec.centipawn_loss]

\* analyzer.py:235-239  the entry of a best move
BestEntry(rec) ==
    [move_number |-> rec.move_number, player |-> Player(rec)]

\* analyzer.py:243-248  the entry of a critical moment
CriticalEntry(rec) ==
    [move_number |-> rec.move_number, player |-> Player(rec),
     eval_change |-> rec.eval_after - rec.eval_before]

\* Mutant of RecordsAfter: only the moves tracked in a list are recorded.
RecordsAfterTrackedOnly(records, rec) ==
    IF rec.classification \in {"mistake", "blunder", "best"}
    THEN Append(records, rec) ELSE records

\* analyzer.py:215
RecordsAfter(records, rec) == Append(records, rec)

\* Mutant of Take: no truncation.
TakeAll(s, n) == s

\* Mutant of Take: the last n entries are kept.
TakeLast(s, n) == SubSeq(s, Max(1, Len(s) - n + 1), Len(s))

\* analyzer.py:265-268  s[:n]
Take(s, n) == SubSeq(s, 1, Min(n, Len(s)))

InitGame ==
    /\ PipelineIdle
    /\ FnIdle
    /\ ToolsIdle
    /\ gpc = "begin"
    /\ n_moves \in 0..MaxPlies
    /\ first_turn \in {"white", "black"}
    /\ palette \in Palettes
    /\ FreshLocals
    /\ engine = "none"
    /\ queries = 0
    /\ best_info = "none"
    /\ result = NoAnalysis

gameInput == <<n_moves, first_turn, palette>>

localVars ==
    <<move_num, move_analyses, white_losses, black_losses, mistakes,
      blunders, best_moves, critical_moments>>

\* Mutant of EngineAfterFinally: an exception skips engine.quit().
EngineLeftOnException(e) == e

\* analyzer.py:272-273  finally: engine.quit(), reached only once the engine
\* was started (the inner try begins after popen_uci, 153-155)
EngineAfterFinally(e) == IF e = "open" THEN "quit" ELSE e

\* analyzer.py:275-277 with 272-273: an exception ends the call with None,
\* the engine, if started, having been quit; the locals go with the frame.
ReturnNone ==
    /\ gpc' = "returned"
    /\ result' = NoAnalysis
    /\ engine' = EngineAfterFinally(engine)
    /\ move_num' = 0
    /\ move_analyses' = <<>>
    /\ white_losses' = <<>>
    /\ black_losses' = <<>>
    /\ mistakes' = <<>>
    /\ blunders' = <<>>
    /\ best_moves' = <<>>
    /\ critical_moments' = <<>>

\* analyzer.py:134-165  up to the start of the engine: no Stockfish (134-137),
\* no game in the PGN (141-144) or popen_uci raising (153) return None.
BeginAnalysis ==
    /\ gpc = "begin"
    /\ \E ok \in BOOLEAN :
         IF ok
         THEN /\ gpc' = "initial"
              /\ engine' = "open"
              /\ UNCHANGED <<localVars, result>>
         ELSE ReturnNone
    /\ UNCHANGED <<gameInput, queries, best_info, pipelineVars, fnVars,
                   toolVars>>

\* analyzer.py:167-169  the initial evaluation (its value is never read)
InitialQuery ==
    /\ gpc = "initial"
    /\ queries' = queries + 1
    /\ \E ok \in BOOLEAN :
         IF ok
         THEN /\ gpc' = "loop"
              /\ UNCHANGED <<localVars, engine, result>>
         ELSE ReturnNone
    /\ UNCHANGED <<gameInput, best_info, pipelineVars, fnVars, toolVars>>

\* analyzer.py:171-250  one iteration of the loop over the moves.  When the
\* subscript of line 179 raises, after the first query of the ply, 272-277
\* quit the engine and return None.
AnalyseMove ==
    /\ gpc = "loop"
    /\ move_num < n_moves
    /\ \E ev \in palette :
         LET best_move == PrincipalMove(ev[3])
             rec == MoveRecord(move_num, ev[1], ev[2], best_move)
         IN /\ best_info' = ev[3]
            /\ IF best_move = "IndexError"
               THEN /\ queries' = queries + 1
                    /\ ReturnNone
               ELSE /\ move_analyses' = RecordsAfter(move_analyses, rec)
                    /\ white_losses' =
                         IF rec.is_white
                         THEN Append(white_losses, rec.centipawn_loss)
                         ELSE white_losses
                    /\ black_losses' =
                         IF rec.is_white
                         THEN black_losses
                         ELSE Append(black_losses, rec.centipawn_loss)
                    /\ mistakes' = IF rec.classification = "mistake"
                                    THEN Append(mistakes, LossEntry(rec))
                                    ELSE mistakes
                    /\ blunders' = IF rec.classification = "blunder"
                                    THEN Append(blunders, LossEntry(rec))
                                    ELSE blunders
                    /\ best_moves' = IF rec.classification = "best"
                                      THEN Append(best_moves, BestEntry(rec))
                                      ELSE best_moves
                    /\ critical_moments' =
                         IF IsCritical(rec.eval_before, rec.eval_after)
                         THEN Append(critical_moments, CriticalEntry(rec))
                         ELSE critical_moments
                    /\ move_num' = move_num + 1
                    /\ queries' = queries + 2
                    /\ UNCHANGED <<gpc, engine, result>>
    /\ UNCHANGED <<gameInput, pipelineVars, fnVars, toolVars>>

\* analyzer.py:178, 188 raising: the query before the move, or the one after
\* it, fails; 272-277 quit the engine and return None.
EvaluatorFails ==
    /\ gpc = "loop"
    /\ move_num < n_moves
    /\ \E at \in {1, 2} : queries' = queries + at
    /\ best_info' = "none"
    /\ ReturnNone
    /\ UNCHANGED <<gameInput, pipelineVars, fnVars, toolVars>>

\* analyzer.py:252-273  the loop is over: the result is assembled and
\* returned, the engine quit.
FinishAnalysis ==
    /\ gpc = "loop"
    /\ move_num = n_moves
    /\ \E aw \in calculate_accuracy(white_losses),
          ab \in calculate_accuracy(black_losses) :
         result' = [kind |-> "result",
                    accuracy_white |-> aw,
                    accuracy_black |-> ab,
                    total_moves |-> n_moves,
                    mistakes |-> Take(mistakes, ListCap),
                    blunders |-> Take(blunders, ListCap),
                    best_moves |-> Take(best_moves, ListCap),
                    critical_moments |-> Take(critical_moments, ListCap),
                    move_analyses |-> move_analyses]
    /\ gpc' = "returned"
    /\ engine' = "quit"
    /\ move_num' = 0
    /\ move_analyses' = <<>>
    /\ white_losses' = <<>>
    /\ black_losses' = <<>>
    /\ mistakes' = <<>>
    /\ blunders' = <<>>
    /\ best_moves' = <<>>
    /\ critical_moments' = <<>>
    /\ UNCHANGED <<gameInput, queries, best_info, pipelineVars, fnVars,
                   toolVars>>

NextGame ==
    \/ BeginAnalysis
    \/ InitialQuery
    \/ AnalyseMove
    \/ EvaluatorFails
    \/ FinishAnalysis

SpecGame == InitGame /\ [][NextGame]_vars

\* ============================================================== fetch_games
\* Largest limit asked for.
MaxLimit == 4

\* Most game lines a Lichess response sends.
MaxLines == 5

\* Most monthly archives of a Chess.com player, and most games in one.
MaxArchives == 2
MaxArchiveGames == 3

Platforms == {"LICHESS", "CHESS_COM", "OTHER"}

ArchiveLists == UNION {[1..k -> 0..MaxArchiveGames] : k \in 0..MaxArchives}

InitFetch ==
    /\ PipelineIdle
    /\ FnIdle
    /\ GameIdle
    /\ BackfillIdle
    /\ JobsIdle
    /\ fpc = "call"
    /\ platform \in Platforms
    /\ limit \in 0..MaxLimit
    /\ \/ platform = "LICHESS" /\ lines \in 0..MaxLines /\ archives = <<>>
       \/ platform = "CHESS_COM" /\ lines = 0 /\ archives \in ArchiveLists
       \/ platform = "OTHER" /\ lines = 0 /\ archives = <<>>
    /\ n_games = 0
    /\ fetch_out = "pending"

fetchRest == <<pipelineVars, fnVars, gameVars, backfillVars, jobsVars>>

\* game_fetcher.py:221-238 with 55-62 and 122-137: the dispatch on the
\* platform and the first response: 404 returns [], another error status or
\* a request error is raised, an unsupported platform raises ValueError, a
\* Chess.com player without archives returns [].
FetchGamesCall ==
    /\ fpc = "call"
    /\ \E status \in {"ok", "404", "error"} :
         IF platform = "OTHER" \/ status = "error"
         THEN fpc' = "returned" /\ fetch_out' = "raised"
         ELSE IF status = "404" \/ (platform = "CHESS_COM" /\ archives = <<>>)
         THEN fpc' = "returned" /\ fetch_out' = "list"
         ELSE /\ fpc' = IF platform = "LICHESS" THEN "lichess" ELSE "chesscom"
              /\ UNCHANGED fetch_out
    /\ UNCHANGED <<platform, limit, lines, archives, n_games, fetchRest>>

\* game_fetcher.py:84  if len(games) >= limit: break  (after the append)
LichessBreak(n, lim) == n >= lim

\* game_fetcher.py:64-85  one game line of the response: the game is
\* appended, then the limit is tested.
LichessLine ==
    /\ fpc = "lichess"
    /\ lines > 0
    /\ lines' = lines - 1
    /\ n_games' = n_games + 1
    /\ IF LichessBreak(n_games', limit)
       THEN fpc' = "returned" /\ fetch_out' = "list"
       ELSE UNCHANGED <<fpc, fetch_out>>
    /\ UNCHANGED <<platform, limit, archives, fetchRest>>

\* game_fetcher.py:64, 87-95  the response ends (the list is returned) or
\* the connection fails while streaming (the error is raised).
LichessEnd ==
    /\ fpc = "lichess"
    /\ \/ lines = 0 /\ fetch_out' = "list"
       \/ fetch_out' = "raised"
    /\ fpc' = "returned"
    /\ UNCHANGED <<platform, limit, lines, archives, n_games, fetchRest>>

RECURSIVE TakeFromArchive(_, _, _)
\* game_fetcher.py:151-168  len(games) after the loop over an archive of k
\* games: the limit is tested before each append.
TakeFromArchive(n, k, lim) ==
    IF k = 0 \/ n >= lim THEN n
    ELSE TakeFromArchive(n + 1, k - 1, lim)

\* game_fetcher.py:140-168  the newest archive not yet read: the loop breaks
\* if the limit is reached, else the archive is fetched (raising on an
\* error) and its games are taken.
ChesscomArchive ==
    /\ fpc = "chesscom"
    /\ archives # <<>>
    /\ IF n_games >= limit
       THEN /\ fpc' = "returned"
            /\ fetch_out' = "list"
            /\ UNCHANGED <<archives, n_games>>
       ELSE \E ok \in BOOLEAN :
              IF ok
              THEN /\ n_games' = TakeFromArchive(n_games,
                                                  archives[Len(archives)], limit)
                   /\ archives' = SubSeq(archives, 1, Len(archives) - 1)
                   /\ UNCHANGED <<fpc, fetch_out>>
              ELSE /\ fpc' = "returned"
                   /\ fetch_out' = "raised"
                   /\ UNCHANGED <<archives, n_games>>
    /\ UNCHANGED <<platform, limit, lines, fetchRest>>

\* game_fetcher.py:140, 177-178  no archive is left: the list is returned
ChesscomEnd ==
    /\ fpc = "chesscom"
    /\ archives = <<>>
    /\ fpc' = "returned"
    /\ fetch_out' = "list"
    /\ UNCHANGED <<platform, limit, lines, archives, n_games, fetchRest>>

NextFetch ==
    \/ FetchGamesCall
    \/ LichessLine
    \/ LichessEnd
    \/ ChesscomArchive
    \/ ChesscomEnd

SpecFetch == InitFetch /\ [][NextFetch]_vars

\* ============================================================= backfill_fen
\* Number of analyzed rows the run reads.
NumRows == 2

\* The plies of a stored game, each labelled as the analyzer classified it.
RowPlies == 0..1
PlyLabels == {"other", "mistake", "blunder"}

\* A position is held as the index of the ply it precedes; NoFen is an entry
\* without 'fen' (or with an empty one).
NoFen == -1

\* The entries of one list of a stored result: the plies with that label in
\* play order, as analyze_game_sync numbers them (analyzer.py:202, 219-233),
\* with a FEN where has[k] says so.
EntriesOf(label, has, which) ==
    LET ks == SetToSeq({k \in RowPlies : label[k] = which})
    IN [i \in 1..Len(ks) |->
          [move_number |-> (ks[i] \div 2) + 1,
           player |-> IF ks[i] % 2 = 0 THEN "white" ELSE "black",
           fen |-> IF has[ks[i]] THEN ks[i] ELSE NoFen]]

\* backfill_fen.py:107-114  the rows the SELECT can return: analyzed games
\* with a PGN that parses or not, some entries with a FEN, some without.
StoredRows ==
    {[pgn_ok |-> ok,
      plies |-> Cardinality(RowPlies),
      mistakes |-> EntriesOf(label, has, "mistake"),
      blunders |-> EntriesOf(label, has, "blunder")] :
        ok \in BOOLEAN, label \in [RowPlies -> PlyLabels],
        has \in [RowPlies -> BOOLEAN]}

\* backfill_fen.py:28-56  extract_fen_from_pgn: the position before the ply
\* of index (move_number - 1) * 2 + (0 if is_white else 1), None when the
\* PGN yields no game or has no such ply.
extract_fen_from_pgn(row, move_number, is_white) ==
    LET target_idx == (move_number - 1) * 2 + (IF is_white THEN 0 ELSE 1)
    IN IF row.pgn_ok /\ target_idx < row.plies THEN target_idx ELSE NoFen

\* backfill_fen.py:68-75, 79-86  one list: an entry without FEN gets the
\* extracted one, if there is one.
BackfillList(row, list) ==
    [i \in 1..Len(list) |->
        IF list[i].fen = NoFen
        THEN [list[i] EXCEPT !.fen =
                 extract_fen_from_pgn(row, list[i].move_number,
                                      list[i].player = "white")]
        ELSE list[i]]

\* backfill_fen.py:59-99  backfill_game: the updated result
backfill_game(row) ==
    [row EXCEPT !.mistakes = BackfillList(row, row.mistakes),
                !.blunders = BackfillList(row, row.blunders)]

HasFen(list) == \E i \in 1..Len(list) : list[i].fen # NoFen

\* backfill_fen.py:130-149  the row is skipped: nothing to fill, or some
\* mistake, else some blunder, already has a FEN.
SkipRow(row) ==
    \/ row.mistakes = <<>> /\ row.blunders = <<>>
    \/ HasFen(row.mistakes)
    \/ HasFen(row.blunders)

InitBackfill ==
    /\ PipelineIdle
    /\ FnIdle
    /\ GameIdle
    /\ FetchIdle
    /\ JobsIdle
    /\ bpc = "loop"
    /\ ga_rows \in [1..NumRows -> StoredRows]
    /\ row_idx = 0

backfillRest == <<pipelineVars, fnVars, gameVars, fetchVars, jobsVars>>

\* backfill_fen.py:122-170  one iteration of the loop over the rows; a
\* result that backfill_game changed is written back (154-161).
BackfillRow ==
    /\ bpc = "loop"
    /\ row_idx < Len(ga_rows)
    /\ row_idx' = row_idx + 1
    /\ ga_rows' = IF SkipRow(ga_rows[row_idx + 1]) THEN ga_rows
               ELSE [ga_rows EXCEPT ![row_idx + 1] = backfill_game(ga_rows[row_idx + 1])]
    /\ UNCHANGED <<bpc, backfillRest>>

\* backfill_fen.py:172-175  the loop is over
BackfillDone ==
    /\ bpc = "loop"
    /\ row_idx = Len(ga_rows)
    /\ bpc' = "done"
    /\ UNCHANGED <<ga_rows, row_idx, backfillRest>>

NextBackfill ==
    \/ BackfillRow
    \/ BackfillDone

SpecBackfill == InitBackfill /\ [][NextBackfill]_vars

\* ======================================================= the "Job" table
\* Jobs in the table (ids in the order of "createdAt"), process requests
\* received, and times the worker may process one job.
NumJobs == 2
NumRequests == 2
MaxWorkerRuns == 2

JobIds == 1..NumJobs
Requests == 1..NumRequests

\* A job id with no row in "Job".
UnknownJob == 0

QueuedJob == [status |-> "QUEUED", result |-> "none"]

InitJobs ==
    /\ PipelineIdle
    /\ FnIdle
    /\ GameIdle
    /\ FetchIdle
    /\ BackfillIdle
    /\ jobs = [j \in JobIds |-> QueuedJob]
    /\ rpc = [r \in Requests |-> "idle"]
    /\ rjob = [r \in Requests |-> UnknownJob]
    /\ rout = [r \in Requests |-> "none"]
    /\ scheduled = [j \in JobIds |-> 0]
    /\ pending = [j \in JobIds |-> 0]
    /\ wpc = "poll"
    /\ wjob = UnknownJob
    /\ worker_runs = [j \in JobIds |-> 0]

jobsRest == <<pipelineVars, fnVars, gameVars, fetchVars, backfillVars>>

\* Mutant of IsQueued: the status of the row is not looked at.
AnyStatus(status) == TRUE

\* main.py:95-96  job_status != 'QUEUED' raises 400
IsQueued(status) == status = "QUEUED"

\* main.py:85-100  process_job reads the row of its job_id: no row gives
\* 404, a status other than QUEUED gives 400, and both leave the handler.
ReadJob(r) ==
    /\ rpc[r] = "idle"
    /\ \E j \in JobIds \cup {UnknownJob} :
         /\ rjob' = [rjob EXCEPT ![r] = j]
         /\ IF j = UnknownJob
            THEN /\ rpc' = [rpc EXCEPT ![r] = "done"]
                 /\ rout' = [rout EXCEPT ![r] = "404"]
            ELSE IF ~IsQueued(jobs[j].status)
            THEN /\ rpc' = [rpc EXCEPT ![r] = "done"]
                 /\ rout' = [rout EXCEPT ![r] = "400"]
            ELSE /\ rpc' = [rpc EXCEPT ![r] = "update"]
                 /\ UNCHANGED rout
    /\ UNCHANGED <<jobs, scheduled, pending, wpc, wjob, worker_runs, jobsRest>>

\* main.py:102-117  the UPDATE to RUNNING (by id alone, whatever the status
\* now is) is committed and the background task is added.
MarkRunningAndSchedule(r) ==
    /\ rpc[r] = "update"
    /\ jobs' = [jobs EXCEPT ![rjob[r]].status = "RUNNING"]
    /\ scheduled' = [scheduled EXCEPT ![rjob[r]] = @ + 1]
    /\ pending' = [pending EXCEPT ![rjob[r]] = @ + 1]
    /\ rpc' = [rpc EXCEPT ![r] = "done"]
    /\ rout' = [rout EXCEPT ![r] = "ok"]
    /\ UNCHANGED <<rjob, wpc, wjob, worker_runs, jobsRest>>

\* main.py:120-299  a background task runs to its end and commits COMPLETED
\* with the summary or FAILED with the error.
RunTask(j) ==
    /\ pending[j] > 0
    /\ pending' = [pending EXCEPT ![j] = @ - 1]
    /\ \E end \in {[status |-> "COMPLETED", result |-> "summary"],
                    [status |-> "FAILED", result |-> "error"]} :
         jobs' = [jobs EXCEPT ![j] = end]
    /\ UNCHANGED <<rpc, rjob, rout, scheduled, wpc, wjob, worker_runs, jobsRest>>

\* The QUEUED jobs of the committed table.
QueuedJobs == {j \in JobIds : jobs[j].status = "QUEUED"}

\* worker.py:29  ORDER BY "createdAt" ASC LIMIT 1
OldestQueued == CHOOSE j \in QueuedJobs : \A k \in QueuedJobs : j <= k

\* worker.py:35-41  mark_running / mark_completed execute their UPDATE on a
\* connection of a future=True engine (25) and leave the with block without
\* conn.commit(): the transaction is rolled back and the table keeps its
\* rows.
UncommittedUpdate(table, j, st, res) == table

\* worker.py:27-33, 53-54  fetch_queued_job finds a job (none: the worker
\* sleeps and polls again)
WorkerFetch ==
    /\ wpc = "poll"
    /\ QueuedJobs # {}
    /\ worker_runs[OldestQueued] < MaxWorkerRuns
    /\ wjob' = OldestQueued
    /\ wpc' = "mark"
    /\ UNCHANGED <<jobs, rpc, rjob, rout, scheduled, pending, worker_runs,
                   jobsRest>>

\* worker.py:55  mark_running(job['id'])
WorkerMarkRunning ==
    /\ wpc = "mark"
    /\ jobs' = UncommittedUpdate(jobs, wjob, "RUNNING", jobs[wjob].result)
    /\ wpc' = "process"
    /\ UNCHANGED <<rpc, rjob, rout, scheduled, pending, wjob, worker_runs,
                   jobsRest>>

\* worker.py:43-47, 56  process_job(job)
WorkerProcess ==
    /\ wpc = "process"
    /\ worker_runs' = [worker_runs EXCEPT ![wjob] = @ + 1]
    /\ wpc' = "complete"
    /\ UNCHANGED <<jobs, rpc, rjob, rout, scheduled, pending, wjob, jobsRest>>

\* worker.py:57  mark_completed(job['id'], result)
WorkerMarkCompleted ==
    /\ wpc = "complete"
    /\ jobs' = UncommittedUpdate(jobs, wjob, "COMPLETED", "summary")
    /\ wpc' = "poll"
    /\ UNCHANGED <<rpc, rjob, rout, scheduled, pending, wjob, worker_runs,
                   jobsRest>>

NextJobs ==
    \/ \E r \in Requests : ReadJob(r)
    \/ \E r \in Requests : MarkRunningAndSchedule(r)
    \/ \E j \in JobIds : RunTask(j)
    \/ WorkerFetch
    \/ WorkerMarkRunning
    \/ WorkerProcess
    \/ WorkerMarkCompleted

\* Process requests served by several server processes, and the worker.
SpecJobs == InitJobs /\ [][NextJobs]_vars

\* ================================================================ claims
\* Rows of "GameAnalysis" the job has inserted for game g.
JobRows(g) == {i \in 1..Len(db) : db[i].jobId = ThisJob /\ db[i].gameId = g}

\* Rows earlier jobs left for game g.
EarlierRows(g) == {i \in 1..Len(db) : db[i].jobId # ThisJob /\ db[i].gameId = g}

HasPriorAnalyzed(g) == \E i \in EarlierRows(g) : db[i].status = "analyzed"

PriorFetchedOnly(g) ==
    /\ EarlierRows(g) # {}
    /\ \A i \in EarlierRows(g) : db[i].status = "fetched"

Done(g) == phase[g] \in {"ok", "failed"}

Occurrences(s, x) == Cardinality({i \in 1..Len(s) : s[i] = x})

C2_FailureIsolated ==
    (\E g \in GameIds : phase[g] = "failed") =>
        /\ sched # "aborted"
        /\ (pc = "done" /\ rejected = {}) =>
               \A h \in Range(games_to_analyze) : Done(h)

\* One task failed with its engine unavailable or its PGN unreadable, a
\* sibling was analyzed and stored, and the job ended.
C2_Witness ==
    /\ pc = "done"
    /\ jobStatus = "COMPLETED"
    /\ \E g, h \in GameIds :
         /\ phase[g] = "failed"
         /\ phase[h] = "ok"
         /\ g < h
         /\ JobRows(h) # {}

\* ---------------------------------------------------------------- C3
\* C3: every submitted task is delivered to the consumer as exactly one
\* outcome (a result or an error carrying the game id): when the stream has
\* ended each task of the batch occurs exactly once among the yielded items.
C3_ExactlyOneOutcome ==
    sched = "exhausted" =>
        \A g \in Range(games_to_analyze) : Occurrences(yielded, g) = 1

C5_FailedGameStoredFetched ==
    (pc = "done" /\ jobStatus = "COMPLETED" /\ sched = "exhausted") =>
        \A g \in Range(games_to_analyze) :
            \E i \in JobRows(g) :
                db[i].status = IF phase[g] = "failed" THEN "fetched" ELSE "analyzed"

\* ---------------------------------------------------------------- C6
\* C6 as claimed: with no engine at batch start the job ends FAILED with an
\* error message and no per-game analysis is started.
C6_NoEngineFailsJob ==
    (pc = "done" /\ ~stockfish_available /\ games # <<>>) =>
        /\ jobStatus = "FAILED"
        /\ jobResult.kind = "error"
        /\ started = {}

\* C6 as amended: with no engine at batch start no per-game analysis is
\* started and no engine process is opened; the job stores every supplied
\* game with status 'fetched' and ends COMPLETED, and ends FAILED only if the
\* Sink rejected one of those writes.
C6_NoEngineDegrades ==
    (~stockfish_available /\ games # <<>>) =>
        /\ started = {}
        /\ engines = {}
        /\ pc = "done" =>
             IF rejected = {}
             THEN /\ jobStatus = "COMPLETED"
                  /\ \A g \in Range(games) :
                       /\ JobRows(g) # {}
                       /\ \A i \in JobRows(g) : db[i].status = "fetched"
             ELSE /\ jobStatus = "FAILED"
                  /\ jobResult.error = "store_error"

\* A job over several games, with no engine, has ended COMPLETED.
C6_Witness ==
    /\ ~stockfish_available
    /\ pc = "done"
    /\ jobStatus = "COMPLETED"
    /\ Len(games) >= 2
    /\ \A g \in Range(games) : pgn[g] = "ok" /\ g \notin cached_analyses

\* ---------------------------------------------------------------- C7
\* C7: when the fetch returns no games the job ends FAILED with the
\* 'no games' message, no analysis task is started and the job writes no
\* row to the GameAnalysis store.
C7_NoGamesFailsJob ==
    (pc \notin {"queued", "fetch"} /\ games = <<>> /\ jobResult.error # "fetch_error") =>
        /\ pc = "done"
        /\ jobStatus = "FAILED"
        /\ jobResult.kind = "error"
        /\ jobResult.error = "no_games"
        /\ started = {}
        /\ \A i \in 1..Len(db) : db[i].jobId # ThisJob

\* The platform offered nothing and the job has ended.
C7_Witness ==
    /\ pc = "done"
    /\ remote = <<>>
    /\ games = <<>>
    /\ jobResult.error = "no_games"

\* ---------------------------------------------------------------- C8
\* C8: once the Sink has rejected the write of a game result the job is
\* FAILED with an error, never COMPLETED, whatever was stored before; the
\* rejected write is not repeated (the job holds no row for that game) and
\* no second write is attempted after it.
C8_StoreErrorFailsJob ==
    rejected # {} =>
        /\ jobStatus = "FAILED"
        /\ jobResult.kind = "error"
        /\ pc = "done"
        /\ Cardinality(rejected) = 1
        /\ \A g \in rejected : JobRows(g) = {}

\* A write was rejected after an analyzed result had been stored.
C8_Witness ==
    /\ rejected # {}
    /\ sched = "abandoned"
    /\ \E i \in 1..Len(db) : db[i].jobId = ThisJob /\ db[i].status = "analyzed"

\* ---------------------------------------------------------------- C9
AfterGate == pc \in {"batch", "store_all", "done"}

\* C9 as claimed: a game is treated as cached only if an earlier result of
\* status 'analyzed' exists; a game whose earlier results are all 'fetched'
\* is placed in the needs-analysis set and is analyzed again.
C9_FetchedIsRetried ==
    AfterGate =>
        \A g \in Range(games) :
            /\ g \in cached_analyses => HasPriorAnalyzed(g)
            /\ PriorFetchedOnly(g) =>
                 /\ g \in Range(games_to_analyze)
                 /\ (pc = "done" /\ jobStatus = "COMPLETED") => g \in started

\* C9 as amended: a game is treated as cached exactly if an earlier result of
\* status 'analyzed' exists; a game whose earlier results are all 'fetched' is
\* never cached, is placed in the needs-analysis set if it has move text, and
\* is then analyzed again in every batch run that reaches its end.
C9_CachedOnlyIfAnalyzed ==
    AfterGate =>
        \A g \in Range(games) :
            /\ g \in cached_analyses <=> HasPriorAnalyzed(g)
            /\ PriorFetchedOnly(g) =>
                 /\ g \notin cached_analyses
                 /\ pgn[g] # "empty" =>
                      /\ g \in Range(games_to_analyze)
                      /\ sched = "exhausted" => g \in started

\* A game stored as 'fetched' by an earlier job was analyzed again, next to a
\* game the gate found cached.
C9_Witness ==
    /\ pc = "done"
    /\ \E g, h \in Range(games) :
         /\ PriorFetchedOnly(g)
         /\ phase[g] = "ok"
         /\ h \in cached_analyses

\* ---------------------------------------------------------------- C10
\* C10 as claimed: every supplied game is in exactly one of the two sets.
C10_Partition ==
    AfterGate =>
        \A g \in Range(games) :
            (g \in cached_analyses) # (g \in Range(games_to_analyze))

\* C10 as amended: the two sets are disjoint subsets of the supplied games,
\* and a supplied game is in neither exactly if it has no move text and no
\* earlier 'analyzed' result; every game with move text is in exactly one.
C10_DisjointCover ==
    AfterGate =>
        /\ cached_analyses \cap Range(games_to_analyze) = {}
        /\ (cached_analyses \cup Range(games_to_analyze)) \subseteq Range(games)
        /\ \A g \in Range(games) :
             (g \notin cached_analyses /\ g \notin Range(games_to_analyze))
                <=> (pgn[g] = "empty" /\ ~HasPriorAnalyzed(g))

\* The gate has produced a cached game, a game to analyze and a game in
\* neither set.
C10_Witness ==
    /\ AfterGate
    /\ cached_analyses # {}
    /\ games_to_analyze # <<>>
    /\ \E g \in Range(games) :
         g \notin cached_analyses /\ g \notin Range(games_to_analyze)

\* ---------------------------------------------------------------- C11
\* The first job stored every offered game with status 'analyzed'.
FirstJobAnalyzedAll ==
    \A g \in Range(remote) :
        \E i \in 1..Len(db) :
            /\ db[i].jobId = FirstJob
            /\ db[i].gameId = g
            /\ db[i].status = "analyzed"

\* C11: when a first job has stored every game of a set as 'analyzed', a
\* second job of the same user over the same games starts no per-game
\* analysis: nothing is placed in its needs-analysis set, no analyzer is
\* invoked and no engine is opened.
C11_RerunStartsNoAnalysis ==
    (job_id = SecondJob /\ remote # <<>> /\ FirstJobAnalyzedAll) =>
        /\ games_to_analyze = <<>>
        /\ started = {}
        /\ engines = {}

\* The second job ran to its end over several games, each analyzed by the
\* first job and none known before it, and found all of them cached.
C11_Witness ==
    /\ job_id = SecondJob
    /\ pc = "done"
    /\ jobStatus = "COMPLETED"
    /\ Len(remote) >= 2
    /\ FirstJobAnalyzedAll
    /\ \A i \in 1..Len(db) : db[i].jobId # PriorJob
    /\ cached_analyses = Range(games)

\* ---------------------------------------------------------------- C12
\* C12: for a game the Cache Gate classified as already analyzed the job
\* writes no record of status 'fetched' to the Sink and reports no outcome
\* of status 'fetched', also when every game of the batch is cached.
C12_CachedKeptVerbatim ==
    \A g \in cached_analyses :
        /\ \A i \in JobRows(g) : db[i].status # "fetched"
        /\ \A k \in 1..Len(analyses) :
             analyses[k].gameId = g => analyses[k].status # "fetched"

\* ---------------------------------------------------------------- C13
\* The label table of the claim, in ascending order of threshold.
LabelTable ==
    <<[upTo |-> 10, label |-> "best"],
      [upTo |-> 30, label |-> "excellent"],
      [upTo |-> 100, label |-> "good"],
      [upTo |-> 200, label |-> "inaccuracy"],
      [upTo |-> 500, label |-> "mistake"]>>

\* The label of the first row of the table that `loss` does not exceed.
FirstMatch(loss) ==
    LET hits == {k \in 1..Len(LabelTable) : loss <= LabelTable[k].upTo}
    IN IF hits = {} THEN "blunder"
       ELSE LabelTable[CHOOSE k \in hits : \A j \in hits : k <= j].label

BoundaryLabels ==
    {<<10, "best">>, <<11, "excellent">>, <<30, "excellent">>, <<31, "good">>,
     <<100, "good">>, <<101, "inaccuracy">>, <<200, "inaccuracy">>,
     <<201, "mistake">>, <<500, "mistake">>, <<501, "blunder">>}

ClassifyReturned == fn = "classify_move" /\ fnPc = "return"

\* C13: for every non-negative loss classify_move returns the label of the
\* first threshold, in ascending order, that the loss does not exceed (<=10
\* best, <=30 excellent, <=100 good, <=200 inaccuracy, <=500 mistake, else
\* blunder), and the ten boundary losses get the labels the claim lists.
C13_ClassifyFirstMatch ==
    ClassifyReturned =>
        /\ fnOut = FirstMatch(fnArg)
        /\ \A b \in BoundaryLabels : fnArg = b[1] => fnOut = b[2]

\* classify_move returned for the boundary loss 500, one below "blunder".
C13_Witness ==
    /\ ClassifyReturned
    /\ fnArg = 500
    /\ fnOut = "mistake"

\* ---------------------------------------------------------------- C14
AccuracyReturned == fn = "calculate_accuracy" /\ fnPc = "return"

\* clamp(100 * (1 - mean / 200), 0, 100) rounded to one decimal, in tenths,
\* for a non-empty list: the unrounded value is num / den tenths; a value
\* exactly half way between two tenths may be rounded to either.
ClampThenRound(losses) ==
    LET den == Len(losses)
        num == 1000 * den - 5 * Sum(losses)
    IN IF num <= 0 THEN {0}
       ELSE IF num >= 1000 * den THEN {1000}
       ELSE {r \in 0..1000 : Abs(10 * (r * den - num)) <= 5 * den}

\* C14: calculate_accuracy returns 100.0 for the empty list and otherwise
\* clamp(100 * (1 - mean / 200), 0, 100) rounded to one decimal place; the
\* result lies in [0, 100], is 0.0 when the mean loss is 200 or more, and
\* [0,0] gives 100.0, [100] gives 50.0, [200] and [400] give 0.0.
C14_AccuracyFormula ==
    AccuracyReturned =>
        /\ fnArg = <<>> => fnOut = 1000
        /\ fnArg # <<>> => fnOut \in ClampThenRound(fnArg)
        /\ fnOut \in 0..1000
        /\ (fnArg # <<>> /\ Sum(fnArg) >= 200 * Len(fnArg)) => fnOut = 0
        /\ fnArg = <<0, 0>> => fnOut = 1000
        /\ fnArg = <<100>> => fnOut = 500
        /\ fnArg = <<200>> => fnOut = 0
        /\ fnArg = <<400>> => fnOut = 0

\* calculate_accuracy returned 0.0 for a list whose mean loss, above 200,
\* gives a negative unclamped value.
C14_Witness ==
    /\ AccuracyReturned
    /\ fnArg = <<400, 100, 400>>
    /\ fnOut = 0

\* ---------------------------------------------------------------- C15
\* The records of the call: the locals while it runs, the result's after.
Records == IF gpc = "returned" THEN result.move_analyses ELSE move_analyses

\* The loss the claim gives a move.
ClaimedLoss(rec) ==
    LET d == IF rec.is_white THEN rec.eval_before - rec.eval_after
                             ELSE rec.eval_after - rec.eval_before
    IN IF d > 0 THEN d ELSE 0

\* The recorded losses of one colour's moves, in play order.
LossesOf(records, white) ==
    LET own == SelectSeq(records, LAMBDA rec : rec.is_white = white)
    IN [i \in 1..Len(own) |-> own[i].centipawn_loss]

\* C15: every recorded loss is max(0, evalBefore - evalAfter) for a move of
\* white and max(0, evalAfter - evalBefore) for a move of black, hence >= 0,
\* the mover being the side to move at that ply; each loss is appended to
\* the loss list of the mover's colour only.
C15_LossOfMover ==
    /\ \A k \in 1..Len(Records) :
         /\ Records[k].is_white = (TurnAt(k - 1) = "white")
         /\ Records[k].centipawn_loss = ClaimedLoss(Records[k])
         /\ Records[k].centipawn_loss >= 0
    /\ gpc = "loop" =>
         /\ white_losses = LossesOf(move_analyses, TRUE)
         /\ black_losses = LossesOf(move_analyses, FALSE)
         /\ \A i \in 1..Len(white_losses) : white_losses[i] >= 0
         /\ \A i \in 1..Len(black_losses) : black_losses[i] >= 0

\* Both sides have moved several times; black lost centipawns on one move,
\* white on another, and some move improved the mover's score (loss 0).
C15_Witness ==
    /\ gpc = "loop"
    /\ Len(white_losses) >= 2
    /\ Len(black_losses) >= 2
    /\ \E k \in 1..Len(move_analyses) :
         ~move_analyses[k].is_white /\ move_analyses[k].centipawn_loss > 0
    /\ \E k \in 1..Len(move_analyses) :
         move_analyses[k].is_white /\ move_analyses[k].centipawn_loss > 0
    /\ \E k \in 1..Len(move_analyses) :
         /\ move_analyses[k].centipawn_loss = 0
         /\ move_analyses[k].eval_before # move_analyses[k].eval_after

\* ---------------------------------------------------------------- C16
ScoreReturned == fn = "_get_score" /\ fnPc = "return"

\* The side a reported mate favours: the side to move when it mates in
\* n > 0, its opponent when it is mated in -n or is checkmated (n = 0).
MateFavoursWhite(info) ==
    IF info.n > 0 THEN info.turn = "white" ELSE info.turn = "black"

\* C16: for a forced mate in d >= 0 moves (d = 0: mate has just been
\* delivered) the normalized score is 10000 - 10 * d when the mate favours
\* white and -(10000 - 10 * d) when it favours black; a white-favourable
\* mate never scores negative, a black-favourable one never positive.
C16_MateScoreFolding ==
    (ScoreReturned /\ fnArg.kind = "mate") =>
        LET d == Abs(fnArg.n)
        IN IF MateFavoursWhite(fnArg)
           THEN fnOut = 10000 - 10 * d /\ fnOut >= 0
           ELSE fnOut = -(10000 - 10 * d) /\ fnOut <= 0

\* ---------------------------------------------------------------- C17
Produced == gpc = "returned" /\ result.kind = "result"

\* The four capped lists of the result.
CappedLists ==
    {result.mistakes, result.blunders, result.best_moves,
     result.critical_moments}

\* C17 as stated: each capped list of a result has at most 10 entries and
\* each entry's move number is greater than that of the entry before it.
C17_CappedStrictlyIncreasing ==
    Produced =>
        \A list \in CappedLists :
            /\ Len(list) <= 10
            /\ \A i \in 1..(Len(list) - 1) :
                 list[i].move_number < list[i + 1].move_number

\* C17, amended: each capped list of a result has at most 10 entries and is
\* in play order: no entry's move number is smaller than that of the entry
\* before it, and two neighbours with the same move number are the two
\* sides' moves of that full move.
C17_CappedInPlayOrder ==
    Produced =>
        \A list \in CappedLists :
            /\ Len(list) <= 10
            /\ \A i \in 1..(Len(list) - 1) :
                 /\ list[i].move_number <= list[i + 1].move_number
                 /\ list[i].move_number = list[i + 1].move_number =>
                      list[i].player # list[i + 1].player

\* A result whose critical moments overflowed the cap and whose best moves
\* hold both sides' moves of one full move.
C17_Witness ==
    /\ Produced
    /\ result.total_moves > 10
    /\ Len(result.critical_moments) = 10
    /\ \E i \in 1..(Len(result.best_moves) - 1) :
         result.best_moves[i].move_number = result.best_moves[i + 1].move_number

\* ---------------------------------------------------------------- C18
\* The first n elements of a sequence (all of them if there are fewer).
FirstN(s, n) == [i \in 1..(IF Len(s) < n THEN Len(s) ELSE n) |-> s[i]]

\* The records with the given label, in play order.
Labelled(records, label) ==
    SelectSeq(records, LAMBDA rec : rec.classification = label)

WithLoss(recs) ==
    [i \in 1..Len(recs) |->
        [move_number |-> recs[i].move_number,
         player |-> IF recs[i].is_white THEN "white" ELSE "black",
         loss |-> recs[i].centipawn_loss]]

WithoutLoss(recs) ==
    [i \in 1..Len(recs) |->
        [move_number |-> recs[i].move_number,
         player |-> IF recs[i].is_white THEN "white" ELSE "black"]]

\* The entry of list `list` stands for the move of record `rec`.
Lists(list, rec) ==
    \E i \in 1..Len(list) :
        /\ list[i].move_number = rec.move_number
        /\ list[i].player = (IF rec.is_white THEN "white" ELSE "black")

Swing(rec) ==
    IF rec.eval_after >= rec.eval_before
    THEN rec.eval_after - rec.eval_before
    ELSE rec.eval_before - rec.eval_after

Swinging(records) == SelectSeq(records, LAMBDA rec : Swing(rec) > 150)

WithChange(recs) ==
    [i \in 1..Len(recs) |->
        [move_number |-> recs[i].move_number,
         player |-> IF recs[i].is_white THEN "white" ELSE "black",
         eval_change |-> recs[i].eval_after - recs[i].eval_before]]

\* C19: a move is recorded as a critical moment exactly when
\* |evalAfter - evalBefore| > 150 (a swing of exactly 150 is not), whatever
\* its classification and whichever side the swing favours; the result's
\* critical_moments are the first 10 such moves in play order.
C19_CriticalMoments ==
    /\ gpc = "loop" => critical_moments = WithChange(Swinging(move_analyses))
    /\ Produced =>
         result.critical_moments
             = FirstN(WithChange(Swinging(result.move_analyses)), 10)

\* A result with more than 10 critical moments, one of them a best move,
\* and a move whose swing of exactly 150 is not recorded as critical.
C19_Witness ==
    /\ Produced
    /\ Len(Swinging(result.move_analyses)) > 10
    /\ Len(result.critical_moments) = 10
    /\ \E k \in 1..Len(result.move_analyses) :
         /\ Swing(result.move_analyses[k]) = 150
         /\ ~\E i \in 1..10 :
              /\ result.critical_moments[i].eval_change = 150
    /\ \E k \in 1..Len(result.move_analyses) :
         /\ Swing(result.move_analyses[k]) > 150
         /\ result.move_analyses[k].classification = "best"

\* ---------------------------------------------------------------- C20
\* C20: a produced result holds exactly one MoveRecord per ply, in ply
\* order, whatever the classifications: the record count, total_moves and
\* the ply count are equal; a call that ends without completing the loop
\* produces no result.
C20_OneRecordPerPly ==
    gpc = "returned" =>
        \/ result = NoAnalysis
        \/ /\ result.kind = "result"
           /\ Len(result.move_analyses) = result.total_moves
           /\ result.total_moves = n_moves
           /\ \A k \in 1..Len(result.move_analyses) :
                /\ result.move_analyses[k].move_number = ((k - 1) \div 2) + 1
                /\ result.move_analyses[k].is_white = (TurnAt(k - 1) = "white")

\* A result of a game of several plies with moves that no list tracks.
C20_Witness ==
    /\ Produced
    /\ n_moves >= 4
    /\ Len(result.move_analyses) = n_moves
    /\ \E k \in 1..n_moves : result.move_analyses[k].classification = "good"
    /\ \E k \in 1..n_moves : result.move_analyses[k].classification = "excellent"
    /\ \E k \in 1..n_moves : result.move_analyses[k].classification = "best"

\* ---------------------------------------------------------------- C21
\* C21: a successful analysis of a game with n plies issues exactly 2 * n
\* evaluator queries, one before and one after each ply, and no other.
C21_TwoQueriesPerPly ==
    Produced => queries = 2 * n_moves

\* ---------------------------------------------------------------- C22
\* C22: an analysis starts at most one engine process (only from the state
\* with none, at its beginning), and once the call has returned - with a
\* result, after an evaluator failure or any error after the start of the
\* engine - no engine process it started is still open.
C22_EngineReleased ==
    /\ [][(engine' = "open" /\ engine # "open")
            => (engine = "none" /\ gpc = "begin")]_vars
    /\ [](gpc = "returned" => engine # "open")
    /\ [](gpc \in {"initial", "loop"} => engine = "open")

\* The call returned None after a query failed in the loop, past the first
\* ply, and its engine has been quit.
C22_Witness ==
    /\ gpc = "returned"
    /\ result = NoAnalysis
    /\ queries >= 4
    /\ engine = "quit"

\* ---------------------------------------------------------------- C23
\* C23: a query that does not reply within the time budget makes the
\* analysis of its game end as failed, with its engine torn down, instead
\* of waiting for ever (the other games' tasks proceeding meanwhile).
C23_QueryTimeout ==
    \A g \in GameIds :
        (phase[g] = "hung") ~> (phase[g] = "failed" /\ g \notin engines)

\* ---------------------------------------------------------------- C25
Terminal == {"COMPLETED", "FAILED"}

\* C25: every job moved to RUNNING eventually gets a terminal status, and
\* exactly one: COMPLETED with a summary or FAILED with an error string;
\* once terminal, status and result never change.
C25_OneTerminalStatus ==
    /\ (jobStatus = "RUNNING") ~> (jobStatus \in Terminal)
    /\ [](jobStatus = "COMPLETED" => jobResult.kind = "summary")
    /\ [](jobStatus = "FAILED" => jobResult.kind = "error")
    /\ [][(jobStatus \in Terminal) =>
             (jobStatus' = jobStatus /\ jobResult' = jobResult)]_vars

\* ---------------------------------------------------------------- C24
\* The games this job has stored with an analysis, in the order of storing.
StoredAnalyzed ==
    LET mine == SelectSeq(db, LAMBDA r : r.jobId = ThisJob /\ r.status = "analyzed")
    IN [i \in 1..Len(mine) |-> mine[i].gameId]

IsPrefix(s, t) == Len(s) <= Len(t) /\ \A i \in 1..Len(s) : s[i] = t[i]

\* Position of game g in the submission order of the batch.
Submitted(g) == CHOOSE i \in 1..Len(games_to_analyze) : games_to_analyze[i] = g

C26_AtMostLimit ==
    (fpc = "returned" /\ fetch_out = "list") => n_games <= limit

\* ---------------------------------------------------------------- C27
AllHaveFen(list) == \A i \in 1..Len(list) : list[i].fen # NoFen

\* C27: after a backfill run every mistake and blunder entry of every
\* analyzed game with a parseable PGN carries a FEN, also in a game where
\* some other entry had a FEN before the run.
C27_EveryEntryHasFen ==
    bpc = "done" =>
        \A i \in 1..Len(ga_rows) :
            ga_rows[i].pgn_ok =>
                AllHaveFen(ga_rows[i].mistakes) /\ AllHaveFen(ga_rows[i].blunders)

\* ---------------------------------------------------------------- C28
\* What process_job did with the row it read for request r, in one step.
Refused(r, code) ==
    /\ rpc'[r] = "done"
    /\ rout'[r] = code
    /\ jobs' = jobs
    /\ scheduled' = scheduled
    /\ pending' = pending

\* C28: process_job starts processing only a job it reads as QUEUED: for a
\* job in RUNNING, COMPLETED or FAILED it returns an error (400), for an
\* unknown job id not-found (404), and in both cases it changes no status
\* or result and schedules no background task; a task is only ever
\* scheduled by a request that read its job as QUEUED.
C28_OnlyQueuedStarts ==
    /\ [][\A r \in Requests :
            (rpc[r] = "idle" /\ rpc'[r] # "idle") =>
                IF rjob'[r] = UnknownJob THEN Refused(r, "404")
                ELSE IF jobs[rjob'[r]].status # "QUEUED" THEN Refused(r, "400")
                ELSE rpc'[r] = "update"]_vars
    /\ [][\A j \in JobIds :
            scheduled'[j] > scheduled[j] =>
                \E r \in Requests :
                    rpc[r] = "update" /\ rjob[r] = j /\ rout'[r] = "ok"]_vars

\* After one request started a job and its task ended COMPLETED, a second
\* request for the same job was refused with 400; the job was started once.
C28_Witness ==
    \E r \in Requests :
        /\ rpc[r] = "done"
        /\ rout[r] = "400"
        /\ jobs[rjob[r]].status = "COMPLETED"
        /\ scheduled[rjob[r]] = 1
        /\ pending[rjob[r]] = 0

\* ---------------------------------------------------------------- C29
\* C29: a job is started for processing at most once, also when process
\* requests and the polling worker read and update it concurrently: the
\* background tasks scheduled for it and the worker's runs of it number at
\* most one together.
C29_StartedAtMostOnce ==
    \A j \in JobIds : scheduled[j] + worker_runs[j] <= 1

\* ---------------------------------------------------------------- C30
\* C30: the job the worker holds is the oldest QUEUED one; once the worker
\* has processed a job and is back at polling, that job is COMPLETED in the
\* database, and the worker processes no job a second time.
C30_WorkerCompletesOnce ==
    /\ wpc = "mark" => (wjob \in QueuedJobs => wjob = OldestQueued)
    /\ \A j \in JobIds :
         /\ worker_runs[j] <= 1
         /\ (wpc = "poll" /\ worker_runs[j] >= 1) => jobs[j].status = "COMPLETED"

\* ---------------------------------------------------------------- C31
\* C31: a job is COMPLETED only after every result the batch run delivered
\* has been written to the Sink, and once the job's terminal status
\* (COMPLETED or FAILED) is written no GameAnalysis record is written.
C31_StoredBeforeTerminal ==
    /\ [](jobStatus = "COMPLETED" =>
            /\ stream = <<>>
            /\ \A g \in Range(yielded) : g \in Range(StoredAnalyzed))
    /\ [][(jobStatus \in Terminal) => db' = db]_vars

\* A job COMPLETED after its batch run delivered several results, each of
\* them stored.
C31_Witness ==
    /\ jobStatus = "COMPLETED"
    /\ Len(yielded) >= 2
    /\ StoredAnalyzed = yielded

\* ---------------------------------------------------------------- C32
\* C32: when a job ends COMPLETED the outcome list of its summary has
\* exactly one entry for each game supplied to the batch, so its length is
\* the reported total_games, whether a game was cached, analyzed, failed
\* analysis or had no move text.
C32_OneOutcomePerGame ==
    jobStatus = "COMPLETED" =>
        /\ Len(jobResult.analyses) = jobResult.total_games
        /\ \A g \in Range(games) :
             Cardinality({k \in 1..Len(jobResult.analyses) :
                             jobResult.analyses[k].gameId = g}) = 1

\* ---------------------------------------------------------------- C33
\* The stored game of the call under way, as backfill_fen reads it: its PGN
\* parses and its main line has n_moves plies.
StoredGame == [pgn_ok |-> TRUE, plies |-> n_moves]

\* C33: for every recorded move of every game, whichever side moves first,
\* the position extract_fen_from_pgn returns for the move's (move_number,
\* player) is the position before that move, the position_fen the analyzer
\* recorded for it.
C33_BackfillInvertsNumbering ==
    \A k \in 1..Len(move_analyses) :
        extract_fen_from_pgn(StoredGame, move_analyses[k].move_number,
                             move_analyses[k].is_white)
            = move_analyses[k].position_fen

\* ---------------------------------------------------------------- C34
\* C34: when the reply before a move carries no principal move (no line, or
\* an empty one) the analysis of the game still completes and the move's
\* record names the played move as best move, in both notations.
C34_NoPrincipalMove ==
    best_info \in {"absent", "empty"} =>
        /\ \/ gpc = "loop" /\ move_analyses # <<>>
           \/ Produced /\ Records # <<>>
        /\ LET recs == IF gpc = "loop" THEN move_analyses ELSE Records
               rec == recs[Len(recs)]
           IN /\ rec.best_move_san = rec.move_san
              /\ rec.best_move_uci = rec.move_uci

\* ---------------------------------------------------------------- C35
\* C35: every move whose loss exceeds 150 swings the evaluation by more than
\* 150, so every mistake and every blunder is also a critical moment; a
\* move of loss 0 is a critical moment too when the swing exceeds 150.
C35_LossImpliesCritical ==
    /\ \A k \in 1..Len(move_analyses) :
          LET rec == move_analyses[k]
          IN /\ rec.centipawn_loss > 150 =>
                  Abs(rec.eval_after - rec.eval_before) > 150
             /\ Abs(rec.eval_after - rec.eval_before) > 150 =>
                  \E i \in 1..Len(critical_moments) :
                      critical_moments[i] = CriticalEntry(rec)
    /\ \A e \in Range(mistakes) \cup Range(blunders) :
          \E i \in 1..Len(critical_moments) :
              /\ critical_moments[i].move_number = e.move_number
              /\ critical_moments[i].player = e.player

\* A mistake and a move of loss 0, classified best, both among the critical
\* moments.
C35_Witness ==
    /\ gpc = "loop"
    /\ \E e \in Range(mistakes) :
          \E i \in 1..Len(critical_moments) :
              /\ critical_moments[i].move_number = e.move_number
              /\ critical_moments[i].player = e.player
    /\ \E k \in 1..Len(move_analyses) :
          /\ move_analyses[k].centipawn_loss = 0
          /\ move_analyses[k].classification = "best"
          /\ \E i \in 1..Len(critical_moments) :
                critical_moments[i] = CriticalEntry(move_analyses[k])

====
